---- MODULE Spec2Model ----
(***************************************************************************)
(* A model of build_dc_fidb.py: the classifier (should_ignore,             *)
(* is_ar_archive, detect_compiler, detect_variant), the archive handler    *)
(* (extract_or_copy, move_tmp_files), the tree builder and the external    *)
(* analysis driver (build_fidb, create_extra_files).                       *)
(*                                                                         *)
(* Strings are sequences of atoms.  An atom is a run of characters that    *)
(* the code never looks inside; "." and "\\" are atoms of their own, so    *)
(* that suffixes, str.endswith and the substring search of should_ignore   *)
(* are computed as the code computes them.  Paths are Windows paths (the   *)
(* script reads st_file_attributes and runs .exe/.bat tools): a sequence   *)
(* of segments, the first one the drive, joined by "\\".                   *)
(***************************************************************************)
EXTENDS Naturals, Sequences, FiniteSets, TLC

VARIABLES
    DEBUG,      \* the module constant DEBUG (line 28), fixed for a process
    tools,      \* the module-level dict tools (lines 38-42)
    fs,         \* files below the work directories: path record -> data
    dirs,       \* directories created below the current directory
    pc,         \* where the process is: idle (between build_fidb calls),
                \* walk, run1, extra, run2, exited (exit(1)), crashed
                \* (an uncaught exception); calls and classify in the
                \* specifications of the archive handler and the classifier
    runs,       \* build_fidb calls made so far
    fidb_name,  \* argument of the current/last build_fidb call
    sdk_root,   \* argument of the current/last build_fidb call (a root name)
    copied,     \* build_fidb's local counter
    compilers,  \* build_fidb's local set
    walked,     \* ids of the entries rglob has yielded in this walk
    nfiles,     \* entries yielded by rglob in the whole process
    ncalls,     \* extract_or_copy calls made (archive handler specification)
    events,     \* what the current build_fidb call did after its walk
    outcome,    \* how the current/last build_fidb call ended, "" while running
    last,       \* what the last loop iteration of the walk computed and did
    cin,        \* the classifier's input (classifier specification only)
    cout        \* the classifier's output (classifier specification only)

vars == <<DEBUG, tools, fs, dirs, pc, runs, fidb_name, sdk_root, copied,
          compilers, walked, nfiles, ncalls, events, outcome, last, cin, cout>>

(***************************************************************************)
(* Bounds                                                                  *)
(***************************************************************************)
MaxRuns == 2
MaxFiles == 2
MaxCalls == 2

(***************************************************************************)
(* Strings and paths                                                       *)
(***************************************************************************)
SEP == "\\"
DOT == "."

\* str.lower() on one atom: the atoms that hold upper-case letters.
LowerAtom(a) ==
    CASE a = "Demo" -> "demo"
      [] a = "Gnu" -> "gnu"
      [] a = "SH-ELF" -> "sh-elf"
      [] a = "Mw" -> "mw"
      [] a = "COPYING" -> "copying"
      [] a = "LIB" -> "lib"
      [] a = "OBJ" -> "obj"
      [] a = "A" -> "a"
      [] a = "E:" -> "e:"
      [] OTHER -> a

Lower(s) == [i \in DOMAIN s |-> LowerAtom(s[i])]

\* str(path): the segments joined by the separator.
RECURSIVE Str(_)
Str(segs) ==
    IF segs = <<>> THEN <<>>
    ELSE IF Len(segs) = 1 THEN Head(segs)
    ELSE Head(segs) \o <<SEP>> \o Str(Tail(segs))

\* needle in hay, for sequences of atoms.
Contains(hay, needle) ==
    \E i \in 0..(Len(hay) - Len(needle)) :
        \A j \in 1..Len(needle) : hay[i + j] = needle[j]

\* hay.endswith(tail)
EndsWith(hay, tail) ==
    /\ Len(hay) >= Len(tail)
    /\ \A j \in 1..Len(tail) : hay[Len(hay) - Len(tail) + j] = tail[j]

\* PurePath.suffix of a name: from the last dot, unless the name starts or
\* ends with it.
LastDot(name) ==
    IF \E i \in DOMAIN name : name[i] = DOT
    THEN CHOOSE i \in DOMAIN name :
            /\ name[i] = DOT
            /\ \A j \in DOMAIN name : name[j] = DOT => j <= i
    ELSE 0

Suffix(name) ==
    LET i == LastDot(name)
    IN  IF 1 < i /\ i < Len(name) THEN SubSeq(name, i, Len(name)) ELSE <<>>

\* PurePath.with_suffix(suffix).name
WithSuffix(name, suffix) ==
    SubSeq(name, 1, Len(name) - Len(Suffix(name))) \o suffix

\* Path.parts, lower-cased as detect_compiler and detect_variant do.
LowerParts(segs) == {Lower(segs[i]) : i \in DOMAIN segs}

Name(segs) == segs[Len(segs)]

(***************************************************************************)
(* Filters and constants (lines 49-51)                                     *)
(***************************************************************************)
VALID_EXTS == {<<DOT, "o">>, <<DOT, "a">>, <<DOT, "elf">>, <<DOT, "obj">>,
               <<DOT, "lib">>}
IGNORE_DIRS == {"demo", "sample", "vmutool"}
IGNORE_FILES == {<<"copying", DOT, "lib">>}

\* should_ignore with the directory name searched for anywhere in the path,
\* not between two separators.
should_ignore_substring(segs) ==
    LET lower == Lower(Str(segs))
    IN  \/ Lower(Name(segs)) \in IGNORE_FILES
        \/ \E d \in IGNORE_DIRS : Contains(lower, <<d>>)

\* should_ignore(path)
should_ignore(segs) ==
    LET lower == Lower(Str(segs))
    IN  \/ Lower(Name(segs)) \in IGNORE_FILES
        \/ \E d \in IGNORE_DIRS :
              \/ Contains(lower, <<"/", d, "/">>)
              \/ Contains(lower, <<SEP, d, SEP>>)

\* is_ar_archive deciding a .lib file by its name alone, its content unread.
is_ar_archive_nomagic(segs, magic) ==
    LET lower == Lower(Str(segs))
    IN  \/ EndsWith(lower, <<DOT, "a">>)
        \/ EndsWith(lower, <<DOT, "elf", DOT, "lib">>)

\* is_ar_archive(path); magic stands for the file's leading bytes:
\* "ar" for b"!<arch>", "elf" for b"\x7fELF", "other".
is_ar_archive(segs, magic) ==
    LET lower == Lower(Str(segs))
    IN  IF \/ EndsWith(lower, <<DOT, "a">>)
           \/ EndsWith(lower, <<DOT, "elf", DOT, "lib">>)
        THEN TRUE
        ELSE IF EndsWith(lower, <<DOT, "lib">>)
        THEN magic = "ar"
        ELSE FALSE

\* is_elf(path)
is_elf(magic) == magic = "elf"

\* detect_compiler with the extensions looked at before the folder names.
detect_compiler_extfirst(segs, magic) ==
    LET parts == LowerParts(segs)
        sfx   == Lower(Suffix(Name(segs)))
    IN  IF \/ sfx \in {<<DOT, "a">>, <<DOT, "o">>, <<DOT, "elf">>}
           \/ is_ar_archive(segs, magic)
        THEN "gcc"
        ELSE IF sfx \in {<<DOT, "lib">>, <<DOT, "obj">>}
        THEN "shc"
        ELSE IF \E p \in {<<"gnu">>, <<"sh-elf">>} : p \in parts
        THEN "gcc"
        ELSE IF \E p \in {<<"codewarrior">>, <<"mwerks">>, <<"mw">>} : p \in parts
        THEN "shc"
        ELSE "none"

\* detect_compiler(path); "none" stands for None.
detect_compiler(segs, magic) ==
    LET parts == LowerParts(segs)
        sfx   == Lower(Suffix(Name(segs)))
    IN  IF \E p \in {<<"gnu">>, <<"sh-elf">>} : p \in parts
        THEN "gcc"
        ELSE IF \E p \in {<<"codewarrior">>, <<"mwerks">>, <<"mw">>} : p \in parts
        THEN "shc"
        ELSE IF \/ sfx \in {<<DOT, "a">>, <<DOT, "o">>, <<DOT, "elf">>}
                \/ is_ar_archive(segs, magic)
        THEN "gcc"
        ELSE IF sfx \in {<<DOT, "lib">>, <<DOT, "obj">>}
        THEN "shc"
        ELSE "none"

\* detect_variant(path): the first token, in this order, that is a part.
VariantTokens == <<"m4-single-only", "m4-single", "mnomacsave", "m4", "ml">>

detect_variant(segs) ==
    LET parts == LowerParts(segs)
        hits  == {i \in DOMAIN VariantTokens : <<VariantTokens[i]>> \in parts}
    IN  IF hits = {} THEN "default"
        ELSE VariantTokens[CHOOSE i \in hits : \A j \in hits : i <= j]

(***************************************************************************)
(* Configuration (lines 38-42) and the machine the script runs on          *)
(***************************************************************************)
ToolNames == {"ar", "libsplit", "elfcnv"}

\* The paths the tools dict is built with, relative to the SDK root.
RelPath(t) ==
    CASE t = "ar" ->
            << <<"Utl">>, <<"Dev">>, <<"Gnu">>, <<"Bin">>, <<"ar", DOT, "exe">> >>
      [] t = "libsplit" ->
            << <<"Utl">>, <<"Dev">>, <<"Hitachi">>, <<"libsplit", DOT, "exe">> >>
      [] t = "elfcnv" ->
            << <<"Utl">>, <<"Dev">>, <<"Hitachi">>, <<"elfcnv", DOT, "exe">> >>

InitTools ==
    [t \in ToolNames |->
        [rel |-> TRUE, path |-> [abs |-> FALSE, segs |-> RelPath(t)],
         exists |-> FALSE]]

\* The SDK roots on the disk, by name, and the tools each one ships.
Roots == {"r09", "r10"}

\* Path(sdk_root).resolve()
RootPath(r) == [abs |-> TRUE, segs |-> << <<"E:">>, <<"sdk">>, <<r>> >>]

Installed(r) == IF r = "r09" THEN {"ar", "libsplit", "elfcnv"} ELSE {}

\* a / b for paths: an absolute right operand replaces the left one.
Join(a, b) ==
    IF b.abs THEN b ELSE [abs |-> a.abs, segs |-> a.segs \o b.segs]

\* Path.exists() of a tool path.
PathExists(p) ==
    /\ p.abs
    /\ \E r \in Roots : \E t \in Installed(r) :
          p.segs = RootPath(r).segs \o RelPath(t)

\* The names a build may be given.
FidbNames == {"dc_a", "dc_b"}

(***************************************************************************)
(* Directory entries.  members are what an archive or library holds, which *)
(* is what the archiver or the splitter writes when it runs to its end.    *)
(***************************************************************************)
N(stem, ext) == <<stem, DOT, ext>>

Member(name, elf, ro) == [name |-> name, elf |-> elf, ro |-> ro]

Entry(id, d, name, kind, magic, members) ==
    [id |-> id, dirs |-> d, name |-> name, kind |-> kind, magic |-> magic,
     members |-> members]

\* The entries rglob may yield below an SDK root.
Catalogue ==
    { Entry("lib", << >>, <<"lib">>, "dir", "other", {}),
      Entry("lib/readme.txt", << <<"lib">> >>, N("readme", "txt"), "file", "other", {}),
      Entry("lib/foo.o", << <<"lib">> >>, N("foo", "o"), "file", "elf", {}),
      Entry("demos/foo.o", << <<"demo", "s">> >>, N("foo", "o"), "file", "elf", {}),
      Entry("Demo/foo.o", << <<"Demo">> >>, N("foo", "o"), "file", "elf", {}),
      Entry("lib/COPYING.LIB", << <<"lib">> >>, N("COPYING", "LIB"), "file", "other", {}),
      Entry("lib/libc.a", << <<"lib">> >>, N("libc", "a"), "file", "ar",
            {Member(N("a", "o"), TRUE, FALSE)}),
      Entry("hitachi/sh.lib", << <<"hitachi">> >>, N("sh", "lib"), "file", "other",
            {Member(N("c", "obj"), FALSE, FALSE)}) }

\* The sources the archive handler is called with.
Sources ==
    { Entry("foo.o", << >>, N("foo", "o"), "file", "elf", {}),
      Entry("libc.a", << >>, N("libc", "a"), "file", "ar",
            {Member(<<"b">>, TRUE, TRUE), Member(N("b", "elf"), TRUE, FALSE)}),
      Entry("sh.lib", << >>, N("sh", "lib"), "file", "other",
            {Member(N("c", "obj"), FALSE, FALSE), Member(N("d", "OBJ"), FALSE, FALSE)}) }

\* The path rglob yields for an entry below a root.
FullSegs(root, e) == RootPath(root).segs \o e.dirs \o <<e.name>>

(***************************************************************************)
(* Archive handler (lines 132-206)                                         *)
(***************************************************************************)
\* A directory below the current directory: the work directory itself
\* (comp = ""), its ghidraproj folder, or a destination directory.
Dir(proj, comp, lib, ver, sdk) ==
    [proj |-> proj, comp |-> comp, lib |-> lib, ver |-> ver, sdk |-> sdk]

\* dst_dir / name
DstFile(dst_dir, name) ==
    [proj |-> dst_dir.proj, comp |-> dst_dir.comp, lib |-> dst_dir.lib,
     ver |-> dst_dir.ver, sdk |-> dst_dir.sdk, file |-> name]

\* move_tmp_files without the test of line 137: every file is moved.
move_tmp_files_overwrite(tmp, dst_dir, origin) ==
    LET new == {DstFile(dst_dir, e.name) : e \in tmp}
    IN  [fs |-> [p \in DOMAIN fs \cup new |->
                    IF p \in new
                    THEN LET e == CHOOSE x \in tmp : DstFile(dst_dir, x.name) = p
                         IN  [from |-> origin, memb |-> e.memb, ro |-> e.ro]
                    ELSE fs[p]],
         n |-> Cardinality(tmp),
         skipped |-> {}]

\* move_tmp_files(tmpdir, dst_dir) on the files fs: the files afterwards,
\* the number moved and the names left behind.
move_tmp_files(tmp, dst_dir, origin) ==
    LET moved == {e \in tmp : DstFile(dst_dir, e.name) \notin DOMAIN fs}
        new   == {DstFile(dst_dir, e.name) : e \in moved}
    IN  [fs |-> [p \in DOMAIN fs \cup new |->
                    IF p \in DOMAIN fs THEN fs[p]
                    ELSE LET e == CHOOSE x \in moved : DstFile(dst_dir, x.name) = p
                         IN  [from |-> origin, memb |-> e.memb, ro |-> e.ro]],
         n |-> Cardinality(moved),
         skipped |-> {e.name : e \in tmp \ moved}]

\* The temporary directory after the try block of lines 171-179: the copy
\* of the source, what the tool wrote, and the copy removed again unless
\* something raised before os.remove.
TmpAfterRun(src, env) ==
    LET arc == [name |-> src.name, elf |-> is_elf(src.magic), ro |-> FALSE,
                memb |-> <<>>]
        got == {[name |-> m.name, elf |-> m.elf, ro |-> m.ro, memb |-> m.name] :
                    m \in env.got}
    IN  IF ~env.copy_ok THEN {}
        ELSE IF env.raised THEN {arc} \cup got
        ELSE got

\* Lines 192-200: the name each file has after the ar loop.
ArName(e) ==
    IF Lower(Suffix(e.name)) # <<DOT, "elf">> /\ is_elf(IF e.elf THEN "elf" ELSE "other")
    THEN WithSuffix(e.name, <<DOT, "elf">>)
    ELSE e.name

\* Path.rename onto an existing file raises FileExistsError on Windows.
ArRenameRaises(tmp) ==
    \E e1 \in tmp : \E e2 \in tmp : e1 # e2 /\ ArName(e1) = ArName(e2)

\* Lines 192-200: the read-only attribute cleared, the ELF files renamed.
ArFix(tmp) == {[e EXCEPT !.name = ArName(e), !.ro = FALSE] : e \in tmp}

\* Lines 184-190: what elfcnv does for the .obj files, all in one way:
\* "ok" (writes the .elf), "noout" (writes nothing), "raise".
SplitFix(tmp, cnv) ==
    LET objs == {e \in tmp : Suffix(e.name) = <<DOT, "obj">>}
        elfs == {[name |-> WithSuffix(o.name, <<DOT, "elf">>), elf |-> TRUE,
                  ro |-> FALSE, memb |-> o.memb] : o \in objs}
    IN  CASE cnv = "raise" -> tmp
          [] cnv = "noout" -> tmp \ objs
          [] OTHER ->
                {e \in tmp \ objs : \A x \in elfs : x.name # e.name} \cup elfs

\* A call that does nothing.
NoCall == [fs |-> fs, ret |-> 0, procs |-> {}, tmp |-> FALSE, raises |-> FALSE,
           skipped |-> {}]

\* Lines 156-163: tool == "copy".
copy_mode(src, origin, dst_dir) ==
    LET dst_file == DstFile(dst_dir, src.name)
    IN  IF dst_file \in DOMAIN fs
        THEN [NoCall EXCEPT !.skipped = {src.name}]
        ELSE [NoCall EXCEPT
                !.fs = (dst_file :> [from |-> origin, memb |-> <<>>,
                                     ro |-> FALSE]) @@ fs]

\* Lines 165-201: tool in ("ar", "libsplit").
unpack_mode(tool, src, origin, dst_dir, env) ==
    LET tmp0  == TmpAfterRun(src, env)
        cnv   == IF PathExists(tools["elfcnv"].path) THEN env.cnv ELSE "raise"
        objs  == {e \in tmp0 : Suffix(e.name) = <<DOT, "obj">>}
        procs == (IF env.copy_ok THEN {tool} ELSE {})
                 \cup (IF tool = "libsplit" /\ objs # {} THEN {"elfcnv"} ELSE {})
    IN  IF tool = "ar" /\ ArRenameRaises(tmp0)
        THEN [NoCall EXCEPT !.procs = procs, !.tmp = TRUE, !.raises = TRUE]
        ELSE LET tmp1 == IF tool = "ar" THEN ArFix(tmp0) ELSE SplitFix(tmp0, cnv)
                 mv   == move_tmp_files(tmp1, dst_dir, origin)
             IN  [fs |-> mv.fs, ret |-> mv.n, procs |-> procs, tmp |-> TRUE,
                  raises |-> FALSE, skipped |-> mv.skipped]

\* Line 153 without the test of the flag.
tool_missing_never(tool) == FALSE

\* Line 153: the tool is one of the tools dict and was not found.
tool_missing(tool) == tool \in DOMAIN tools /\ ~tools[tool].exists

\* extract_or_copy(tool, src, dst_dir) on the files fs, the external tools
\* behaving as env says: the files afterwards, the value returned, the tools
\* run, whether a temporary directory was made (it is gone when the with
\* block is left), whether the call ends with an exception.  origin tells
\* the files this call writes from those written before: the SDK root, the
\* source and the number of the call.
extract_or_copy(tool, src, origin, dst_dir, env) ==
    IF tool_missing(tool) THEN NoCall
    ELSE IF tool = "copy" THEN copy_mode(src, origin, dst_dir)
    ELSE IF tool \in {"ar", "libsplit"}
    THEN unpack_mode(tool, src, origin, dst_dir, env)
    ELSE NoCall

\* How the environment may behave on one call: shutil.copy2 into the
\* temporary directory works or raises; the tool raises or not, having
\* written some of the members; elfcnv as in SplitFix.
Envs(tool, src) ==
    IF tool \in {"ar", "libsplit"}
    THEN {[copy_ok |-> FALSE, raised |-> FALSE, got |-> {}, cnv |-> "ok"]}
         \cup {x \in [copy_ok : {TRUE}, raised : BOOLEAN, got : SUBSET src.members,
                      cnv : {"ok", "noout", "raise"}] :
                 x.cnv # "ok" => tool = "libsplit" /\ x.got # {}}
    ELSE {[copy_ok |-> TRUE, raised |-> FALSE, got |-> {}, cnv |-> "ok"]}

(***************************************************************************)
(* Tree builder and external analysis driver (lines 209-358)               *)
(***************************************************************************)
\* Path(f"fid_work_{fidb_name}")
ProjectRoot(name) == Dir(name, "", <<>>, "", "")

GhidraProj(name) == Dir(name, "ghidraproj", <<>>, "", "")

\* A file directly in the work directory.
RootFile(name, file) == DstFile(ProjectRoot(name), file)

NoEntry == Entry("", <<>>, <<>>, "", "", {})

\* Nothing walked yet.
NoLast ==
    [entry |-> NoEntry, passed |-> FALSE, ignored |-> FALSE, compiler |-> "",
     tool |-> "", flag |-> FALSE, called |-> FALSE, ret |-> 0, counted |-> 0,
     newfiles |-> {}, newdirs |-> {}, procs |-> {}, tmp |-> FALSE,
     raised |-> FALSE, raises |-> FALSE, got |-> {}, skipped |-> {}]

\* What one call of extract_or_copy was given and did (r is its result).
CallRecord(e, tool, dst_dir, env, r) ==
    [NoLast EXCEPT
        !.entry = e, !.passed = TRUE, !.tool = tool, !.compiler = dst_dir.comp,
        !.flag = tool \in DOMAIN tools /\ tools[tool].exists,
        !.called = TRUE, !.ret = r.ret, !.counted = r.ret,
        !.newfiles = DOMAIN r.fs \ DOMAIN fs,
        !.newdirs = {dst_dir} \ dirs,
        !.procs = r.procs, !.tmp = r.tmp,
        !.raised = r.tmp /\ env.copy_ok /\ env.raised,
        !.raises = r.raises,
        !.got = IF r.tmp /\ env.copy_ok THEN env.got ELSE {},
        !.skipped = r.skipped]

\* Lines 236-240: the tool paths and flags after the loop, for SDK root r.
resolve_tools(r) ==
    [t \in ToolNames |->
        LET p == IF tools[t].rel THEN Join(RootPath(r), tools[t].path)
                 ELSE tools[t].path
        IN  [rel |-> tools[t].rel, path |-> p,
             exists |-> IF ~tools[t].exists THEN PathExists(p)
                        ELSE tools[t].exists]]

\* Line 249: the work directory is there already.
project_exists(name) == ProjectRoot(name) \in dirs

\* Lines 249-251 left out: mkdir(exist_ok=True) then takes the directory.
aborts_early_never(name) == FALSE

\* Lines 242-253: the call returns before the walk.
aborts_early(name) == ~DEBUG /\ project_exists(name)

\* build_fidb(fidb_name, sdk_root), lines 231-256: up to the walk.
Start(name, root) ==
    /\ pc = "idle"
    /\ runs < MaxRuns
    /\ runs' = runs + 1
    /\ fidb_name' = name
    /\ sdk_root' = root
    /\ tools' = resolve_tools(root)
    /\ copied' = 0
    /\ compilers' = {}
    /\ walked' = {}
    /\ events' = <<>>
    /\ last' = NoLast
    /\ IF aborts_early(name)
       THEN /\ pc' = "idle"
            /\ outcome' = "exists"
            /\ dirs' = dirs
       ELSE /\ pc' = "walk"
            /\ outcome' = ""
            /\ dirs' = IF DEBUG THEN dirs
                       ELSE dirs \cup {ProjectRoot(name), GhidraProj(name)}
    /\ UNCHANGED <<DEBUG, fs, nfiles, ncalls, cin, cout>>

\* Lines 260-262: the entry is skipped.
skip_entry(e, segs) ==
    \/ e.kind # "file"
    \/ Lower(Suffix(e.name)) \notin VALID_EXTS
    \/ should_ignore(segs)

\* Lines 282-284
select_tool(segs, magic) ==
    IF is_ar_archive(segs, magic) THEN "ar"
    ELSE IF Lower(Suffix(Name(segs))) = <<DOT, "lib">> THEN "libsplit"
    ELSE "copy"

\* One iteration of the loop of lines 258-289, on the entry e, the external
\* tools behaving as env says.
ProcessFile(e, env) ==
    LET segs     == FullSegs(sdk_root, e)
        compiler == detect_compiler(segs, e.magic)
        version  == detect_variant(segs)
        dst_dir  == Dir(fidb_name, compiler, e.name, version, sdk_root)
        tool     == select_tool(segs, e.magic)
        r        == extract_or_copy(tool, e, <<sdk_root, e.id, nfiles>>, dst_dir, env)
        seen     == [NoLast EXCEPT !.entry = e]
    IN  /\ pc = "walk"
        /\ nfiles < MaxFiles
        /\ e.id \notin walked
        /\ walked' = walked \cup {e.id}
        /\ nfiles' = nfiles + 1
        /\ IF skip_entry(e, segs)
           THEN /\ last' = [seen EXCEPT
                              !.ignored = /\ e.kind = "file"
                                          /\ Lower(Suffix(e.name)) \in VALID_EXTS]
                /\ UNCHANGED <<fs, dirs, copied, compilers, pc, outcome>>
           ELSE IF compiler = "none"
           THEN /\ last' = [seen EXCEPT !.passed = TRUE, !.compiler = compiler]
                /\ UNCHANGED <<fs, dirs, copied, compilers, pc, outcome>>
           ELSE IF DEBUG
           THEN /\ compilers' = compilers \cup {compiler}
                /\ copied' = copied + 1
                /\ last' = [seen EXCEPT !.passed = TRUE, !.compiler = compiler,
                                        !.tool = tool, !.counted = 1]
                /\ UNCHANGED <<fs, dirs, pc, outcome>>
           ELSE /\ compilers' = compilers \cup {compiler}
                /\ dirs' = dirs \cup {dst_dir}
                /\ fs' = r.fs
                /\ copied' = copied + r.ret
                /\ pc' = IF r.raises THEN "crashed" ELSE pc
                /\ outcome' = IF r.raises THEN "raised" ELSE outcome
                /\ last' = CallRecord(e, tool, dst_dir, env, r)
        /\ UNCHANGED <<DEBUG, tools, runs, fidb_name, sdk_root, ncalls, events,
                       cin, cout>>

\* The end of the walk without the test of line 293.
EndWalk_nocheck ==
    /\ pc = "walk"
    /\ events' = Append(events, "walk_done")
    /\ walked' = {}
    /\ last' = NoLast
    /\ IF DEBUG
       THEN pc' = "idle" /\ outcome' = "dry_run"
                         /\ copied' = 0 /\ compilers' = {}
       ELSE pc' = "run1" /\ outcome' = outcome
                         /\ UNCHANGED <<copied, compilers>>
    /\ UNCHANGED <<DEBUG, tools, fs, dirs, runs, fidb_name, sdk_root,
                   nfiles, ncalls, cin, cout>>

\* Lines 293-335: the walk is over.  A call that returns leaves its locals.
EndWalk ==
    /\ pc = "walk"
    /\ events' = Append(events, "walk_done")
    /\ walked' = {}
    /\ last' = NoLast
    /\ IF copied = 0
       THEN pc' = "exited" /\ outcome' = "no_files"
                           /\ UNCHANGED <<copied, compilers>>
       ELSE IF DEBUG
       THEN pc' = "idle" /\ outcome' = "dry_run"
                         /\ copied' = 0 /\ compilers' = {}
       ELSE pc' = "run1" /\ outcome' = outcome
                         /\ UNCHANGED <<copied, compilers>>
    /\ UNCHANGED <<DEBUG, tools, fs, dirs, runs, fidb_name, sdk_root,
                   nfiles, ncalls, cin, cout>>

\* Lines 341-346: analyzeHeadless (1/2); ok: check_call returned.
Analyze1(ok) ==
    /\ pc = "run1"
    /\ events' = Append(events, "run1")
    /\ IF ok
       THEN pc' = "extra" /\ outcome' = outcome
       ELSE pc' = "crashed" /\ outcome' = "run1_failed"
    /\ UNCHANGED <<DEBUG, tools, fs, dirs, runs, fidb_name, sdk_root, copied,
                   compilers, walked, nfiles, ncalls, last, cin, cout>>

Generated(what) ==
    [from |-> <<"generated", what, runs>>, memb |-> <<>>, ro |-> FALSE]

PropsFile == <<"CreateMultipleLibraries", DOT, "properties">>
DuplicatesFile == <<"duplicates", DOT, "txt">>
CommonSymbolsFile == <<"common_symbols", DOT, "txt">>

\* create_extra_files(project_root, sdk_name, compiler): the files after it.
\* open(.., "w") replaces the properties file; touch() keeps a file there.
create_extra_files(name, compiler) ==
    LET props == RootFile(name, PropsFile)
        dup   == RootFile(name, DuplicatesFile)
        com   == RootFile(name, CommonSymbolsFile)
    IN  [p \in DOMAIN fs \cup {props, dup, com} |->
            IF p = props THEN Generated(compiler)
            ELSE IF p \in DOMAIN fs THEN fs[p]
            ELSE Generated("empty")]

\* Line 349; list(compilers)[0] is any element of the set.
CreateExtraFiles ==
    /\ pc = "extra"
    /\ \E c \in compilers : fs' = create_extra_files(fidb_name, c)
    /\ events' = Append(events, "extra")
    /\ pc' = "run2"
    /\ UNCHANGED <<DEBUG, tools, dirs, runs, fidb_name, sdk_root, copied,
                   compilers, walked, nfiles, ncalls, outcome, last, cin, cout>>

\* Lines 351-358: analyzeHeadless (2/2) and the report.
Analyze2(ok) ==
    /\ pc = "run2"
    /\ IF ok
       THEN /\ events' = events \o <<"run2", "success">>
            /\ pc' = "idle"
            /\ outcome' = "success"
            /\ copied' = 0
            /\ compilers' = {}
       ELSE /\ events' = Append(events, "run2")
            /\ pc' = "crashed"
            /\ outcome' = "run2_failed"
            /\ UNCHANGED <<copied, compilers>>
    /\ UNCHANGED <<DEBUG, tools, fs, dirs, runs, fidb_name, sdk_root,
                   walked, nfiles, ncalls, last, cin, cout>>

NoInput == NoEntry
NoOutput == [compiler |-> "", variant |-> "", tool |-> "", skip |-> FALSE]

\* The process after the module is loaded, before __main__ calls build_fidb.
Init ==
    /\ DEBUG \in BOOLEAN
    /\ tools = InitTools
    /\ fs = << >>
    /\ dirs = {}
    /\ pc = "idle"
    /\ runs = 0
    /\ fidb_name = ""
    /\ sdk_root = ""
    /\ copied = 0
    /\ compilers = {}
    /\ walked = {}
    /\ nfiles = 0
    /\ ncalls = 0
    /\ events = <<>>
    /\ outcome = ""
    /\ last = NoLast
    /\ cin = NoInput
    /\ cout = NoOutput

Next ==
    \/ \E name \in FidbNames : \E root \in Roots : Start(name, root)
    \/ \E e \in Catalogue :
          \E env \in Envs(select_tool(FullSegs(sdk_root, e), e.magic), e) :
              ProcessFile(e, env)
    \/ EndWalk
    \/ \E ok \in BOOLEAN : Analyze1(ok)
    \/ CreateExtraFiles
    \/ \E ok \in BOOLEAN : Analyze2(ok)

Spec == Init /\ [][Next]_vars

(***************************************************************************)
(* The archive handler on its own: extract_or_copy called again and again, *)
(* as build_fidb calls it (the mode chosen by lines 282-284), on any       *)
(* source and destination directory, after the tools were resolved.        *)
(***************************************************************************)
DstDirs(root) ==
    { Dir("dc_a", "gcc", <<"x">>, "default", root),
      Dir("dc_a", "shc", <<"x">>, "m4", root) }

Call(e, dst_dir, env) ==
    LET tool == select_tool(FullSegs(sdk_root, e), e.magic)
        r    == extract_or_copy(tool, e, <<sdk_root, e.id, ncalls>>, dst_dir, env)
    IN  /\ pc = "calls"
        /\ ncalls < MaxCalls
        /\ ncalls' = ncalls + 1
        /\ fs' = r.fs
        /\ dirs' = dirs \cup {dst_dir}
        /\ pc' = IF r.raises THEN "crashed" ELSE pc
        /\ last' = CallRecord(e, tool, dst_dir, env, r)
        /\ UNCHANGED <<DEBUG, tools, runs, fidb_name, sdk_root, copied,
                       compilers, walked, nfiles, events, outcome, cin, cout>>

InitExtract ==
    /\ DEBUG = FALSE
    /\ \E root \in Roots :
          /\ sdk_root = root
          /\ tools = [t \in ToolNames |->
                        [rel |-> TRUE,
                         path |-> Join(RootPath(root), InitTools[t].path),
                         exists |-> PathExists(Join(RootPath(root),
                                                    InitTools[t].path))]]
    /\ fs = << >>
    /\ dirs = {}
    /\ pc = "calls"
    /\ runs = 1
    /\ fidb_name = "dc_a"
    /\ copied = 0
    /\ compilers = {}
    /\ walked = {}
    /\ nfiles = 0
    /\ ncalls = 0
    /\ events = <<>>
    /\ outcome = ""
    /\ last = NoLast
    /\ cin = NoInput
    /\ cout = NoOutput

NextExtract ==
    \E e \in Sources : \E d \in DstDirs(sdk_root) :
        \E env \in Envs(select_tool(FullSegs(sdk_root, e), e.magic), e) :
            Call(e, d, env)

SpecExtract == InitExtract /\ [][NextExtract]_vars

(***************************************************************************)
(* The classifier on its own: the pure functions applied to one path.      *)
(***************************************************************************)
ClassDirs ==
    { << >>, << <<"lib">> >>, << <<"Gnu">> >>, << <<"SH-ELF">>, <<"lib">> >>,
      << <<"Mw">> >>, << <<"codewarrior">>, <<"Gnu">> >>, << <<"gnu", "x">> >>,
      << <<"Demo">> >>, << <<"demo", "s">>, <<"m4">> >> }

ClassNames ==
    { N("foo", "o"), N("foo", "A"), N("foo", "elf"), N("foo", "obj"),
      N("foo", "lib"), <<"foo", DOT, "elf", DOT, "lib">>, N("foo", "txt"),
      N("COPYING", "LIB"), N("bar", "LIB"), <<"gnu">> }

Magics == {"ar", "elf", "other"}

ClassInputs ==
    {Entry("", d, n, "file", m, {}) : d \in ClassDirs, n \in ClassNames, m \in Magics}

Classify ==
    LET segs == FullSegs("r09", cin)
    IN  /\ pc = "classify"
        /\ pc' = "classified"
        /\ cout' = [compiler |-> detect_compiler(segs, cin.magic),
                    variant |-> detect_variant(segs),
                    tool |-> select_tool(segs, cin.magic),
                    skip |-> skip_entry(cin, segs)]
        /\ UNCHANGED <<DEBUG, tools, fs, dirs, runs, fidb_name, sdk_root, copied,
                       compilers, walked, nfiles, ncalls, events, outcome, last,
                       cin>>

InitClassify ==
    /\ DEBUG = FALSE
    /\ tools = InitTools
    /\ fs = << >>
    /\ dirs = {}
    /\ pc = "classify"
    /\ runs = 0
    /\ fidb_name = ""
    /\ sdk_root = ""
    /\ copied = 0
    /\ compilers = {}
    /\ walked = {}
    /\ nfiles = 0
    /\ ncalls = 0
    /\ events = <<>>
    /\ outcome = ""
    /\ last = NoLast
    /\ cin \in ClassInputs
    /\ cout = NoOutput

NextClassify == Classify

SpecClassify == InitClassify /\ [][NextClassify]_vars

(***************************************************************************)
(* Properties                                                              *)
(***************************************************************************)
Range(seq) == {seq[i] : i \in DOMAIN seq}

IsPrefix(a, b) == Len(a) <= Len(b) /\ \A i \in DOMAIN a : a[i] = b[i]

UnpackModes == {"ar", "libsplit"}

\* Every file that is there stays, with what it holds.
FilesKept == \A p \in DOMAIN fs : p \in DOMAIN fs' /\ fs'[p] = fs[p]

\* A call in an unpack mode returns the number of files it moved, and a
\* file left behind is one whose name was already there.
UnpackCountsMoved ==
    (last.called /\ last.tool \in UnpackModes) =>
        /\ last.ret = Cardinality(last.newfiles)
        /\ \A n \in last.skipped : \A p \in last.newfiles : p.file # n

\* C1: across any sequence of extract_or_copy calls a file that exists at a
\* destination path is never replaced or modified: copy mode skips the copy,
\* and the unpack modes leave behind, uncounted, every temporary file whose
\* name is already in the destination directory.
C1_NeverOverwritten == [][FilesKept]_vars /\ []UnpackCountsMoved

\* C1 witness: an unpack call that found one of its files already in the
\* destination directory, left it behind and moved another.
C1_Witness ==
    /\ last.called
    /\ last.tool \in UnpackModes
    /\ last.skipped # {}
    /\ last.newfiles # {}

\* The regular files below the destination directories of a work directory.
TreeFiles(name) == {p \in DOMAIN fs : p.proj = name /\ p.comp # ""}

\* C2: the value extract_or_copy returns is the number of files the call
\* produced in the destination directory, and the total build_fidb
\* accumulates over the walk is the number of files in the destination tree.
C2_CountIsFilesProduced ==
    /\ last.called => last.ret = Cardinality(last.newfiles)
    /\ (pc = "walk" /\ ~DEBUG) => copied = Cardinality(TreeFiles(fidb_name))

EventOrder == <<"walk_done", "run1", "extra", "run2", "success">>

ConfigFiles(name) ==
    {RootFile(name, PropsFile), RootFile(name, DuplicatesFile),
     RootFile(name, CommonSymbolsFile)}

\* C3: a build_fidb call does, in this order and each at most once: the walk
\* with a non-zero count, analyzeHeadless 1, the properties and marker
\* files, analyzeHeadless 2, the success report.  No invocation after a walk
\* that counted nothing, in a dry run or when the work directory was there;
\* no config files and no invocation 2 after a failed invocation 1; no
\* success report after a failed invocation 2.
C3_DriverOrder ==
    /\ IsPrefix(events, EventOrder)
    /\ pc \in {"run1", "extra", "run2"} => copied > 0 /\ ~DEBUG
    /\ "run1" \in Range(events) =>
          /\ ~DEBUG
          /\ outcome \in {"", "run1_failed", "run2_failed", "success"}
    /\ outcome \in {"exists", "raised"} => events = <<>>
    /\ outcome \in {"no_files", "dry_run"} => events = <<"walk_done">>
    /\ outcome = "run1_failed" => events = SubSeq(EventOrder, 1, 2)
    /\ outcome = "run2_failed" => events = SubSeq(EventOrder, 1, 4)
    /\ outcome = "success" <=> "success" \in Range(events)
    /\ (runs > 0 /\ outcome # "exists") =>
          \A p \in ConfigFiles(fidb_name) :
              p \in DOMAIN fs <=> "extra" \in Range(events)

\* C3 witness: a build that ran to its success report.
C3_Witness == outcome = "success" /\ events = EventOrder

\* The extension of a name, lower-cased.
RefExt(name) == Lower(Suffix(name))

\* The name ends, case-insensitively, in the given suffix.
NameEnds(name, tail) == EndsWith(Lower(name), tail)

\* C4 (as amended): a file that passes the extension filter and the ignore
\* rules and whose name ends in .a or .elf.lib, or whose name ends in .lib
\* and whose content begins with the archive magic, is handled in mode ar.
C4_ArchiveModeAmended ==
    (pc = "classified" /\ ~cout.skip) =>
        ((\/ NameEnds(cin.name, <<DOT, "a">>)
          \/ NameEnds(cin.name, <<DOT, "elf", DOT, "lib">>)
          \/ (RefExt(cin.name) = <<DOT, "lib">> /\ cin.magic = "ar"))
            => cout.tool = "ar")

\* C4 witness: a .lib file with the archive magic, handled in mode ar.
C4_Witness ==
    /\ pc = "classified"
    /\ ~cout.skip
    /\ cin.name = N("foo", "lib")
    /\ cin.magic = "ar"
    /\ cout.tool = "ar"

\* C4 (as claimed): a file that passes the filters and has an archive suffix
\* or begins with the archive magic is handled in mode ar.
C4_ArchiveModeClaimed ==
    (pc = "classified" /\ ~cout.skip) =>
        ((\/ NameEnds(cin.name, <<DOT, "a">>)
          \/ NameEnds(cin.name, <<DOT, "elf", DOT, "lib">>)
          \/ cin.magic = "ar")
            => cout.tool = "ar")

\* Some segment of the path is, case-insensitively, one of the markers.
HasSegment(segs, markers) ==
    \E i \in 1..Len(segs) : \E m \in markers : Lower(segs[i]) = <<m>>

\* The five ordered rules, rule 3 given.
RuleLabel(e, rule3) ==
    LET segs == FullSegs("r09", e)
    IN  CASE HasSegment(segs, {"gnu", "sh-elf"}) -> "gcc"
          [] ~HasSegment(segs, {"gnu", "sh-elf"})
             /\ HasSegment(segs, {"codewarrior", "mwerks", "mw"}) -> "shc"
          [] OTHER ->
                IF rule3 THEN "gcc"
                ELSE IF RefExt(e.name) \in {<<DOT, "lib">>, <<DOT, "obj">>}
                THEN "shc"
                ELSE "none"

GccExts == {<<DOT, "a">>, <<DOT, "o">>, <<DOT, "elf">>}

RefIgnored(root, e) ==
    \/ Lower(e.name) \in IGNORE_FILES
    \/ HasSegment(FullSegs(root, e), IGNORE_DIRS)

\* C6: a file with an ignored name or below an ignored directory gets no
\* destination file or directory, is not counted and has no tool run on it;
\* a file whose path only holds an ignore name inside a longer segment is
\* not ignored.
C6_IgnoredUntouched ==
    last.entry # NoEntry =>
        /\ RefIgnored(sdk_root, last.entry) =>
              /\ ~last.passed
              /\ ~last.called
              /\ last.newfiles = {}
              /\ last.newdirs = {}
              /\ last.counted = 0
              /\ last.procs = {}
        /\ (/\ last.entry.kind = "file"
            /\ RefExt(last.entry.name) \in VALID_EXTS
            /\ ~RefIgnored(sdk_root, last.entry)) => last.passed

\* C6 witness: the walk met a file below the directory Demo.
C6_Witness ==
    /\ pc = "walk"
    /\ last.entry.id = "Demo/foo.o"
    /\ last.ignored

\* A build_fidb call that finds its work directory there, DEBUG off.
StartOnExisting ==
    /\ pc = "idle"
    /\ runs' = runs + 1
    /\ ~DEBUG
    /\ ProjectRoot(fidb_name') \in dirs

\* C7: a build_fidb call that finds its work directory there (DEBUG off)
\* returns before the walk: no file or directory changes, no tool runs, and
\* analyzeHeadless is not invoked.
C7_AbortTouchesNothing ==
    /\ [][StartOnExisting =>
            /\ fs' = fs
            /\ dirs' = dirs
            /\ pc' = "idle"
            /\ outcome' = "exists"
            /\ events' = <<>>
            /\ last' = NoLast
            /\ nfiles' = nfiles]_vars
    /\ [](outcome = "exists" => pc = "idle" /\ events = <<>> /\ ~last.called)

\* C7 witness: a second call aborted on the work directory of a first call
\* that had produced files.
C7_Witness ==
    /\ outcome = "exists"
    /\ runs = 2
    /\ TreeFiles(fidb_name) # {}

\* C8: when launching the archiver or the splitter raises, the call does
\* not raise, and what it moved and counted are members the tool had
\* written, never the temporary copy of the source itself.
C8_RaiseLeavesOnlyMembers ==
    (last.called /\ last.tool \in UnpackModes /\ last.raised) =>
        /\ ~last.raises
        /\ last.ret = Cardinality(last.newfiles)
        /\ \A p \in last.newfiles :
              /\ fs[p].memb \in {m.name : m \in last.got}
              /\ p.file # last.entry.name

\* C9: a call in mode ar or libsplit whose tool was not found returns 0,
\* makes no temporary directory, runs nothing and writes nothing, and the
\* walk goes on; a copy does not depend on the flags.
C9_MissingToolSkips ==
    /\ (last.called /\ last.tool \in UnpackModes /\ ~last.flag) =>
          /\ last.ret = 0
          /\ ~last.tmp
          /\ last.procs = {}
          /\ last.newfiles = {}
          /\ ~last.raises
          /\ pc = "walk"
    /\ (last.called /\ last.tool = "copy") =>
          /\ last.procs = {}
          /\ ~last.tmp
          /\ \/ last.skipped = {last.entry.name} /\ last.newfiles = {}
             \/ /\ last.skipped = {}
                /\ \E p \in last.newfiles :
                      last.newfiles = {p} /\ p.file = last.entry.name

\* C9 witness: the splitter was not found and a library was met.
C9_Witness ==
    /\ last.called
    /\ last.tool = "libsplit"
    /\ ~last.flag
    /\ pc = "walk"

\* The path a tool has when resolved against the SDK root r.
ResolvedPath(r, t) == Join(RootPath(r), [abs |-> FALSE, segs |-> RelPath(t)])

\* C10: in every build_fidb call each tool path is the configured relative
\* path resolved against that call's SDK root, and its flag tells whether
\* that path exists.
C10_ToolsOfThisRoot ==
    runs > 0 =>
        \A t \in ToolNames :
            /\ tools[t].path = ResolvedPath(sdk_root, t)
            /\ tools[t].exists = PathExists(ResolvedPath(sdk_root, t))

====
